---- MODULE Spec2Model ----
(***************************************************************************)
(* Model of the OpenHands CLI token streaming layer and settings choices:  *)
(*   openhands_cli/shared/token_streaming.py   extract_streaming_content,  *)
(*                                             schedule_threadsafe         *)
(*   openhands_cli/tui/core/token_streamer.py  TUITokenStreamer            *)
(*   openhands_cli/tui/modals/settings/choices.py  provider/model options  *)
(***************************************************************************)
EXTENDS Integers, Sequences, FiniteSets, TLC

VARIABLES
    \* ---- extract_streaming_content under test
    chunk,                      \* the LLMStreamChunk handed to the function
    streaming,                  \* outcome of the call: pending / returned / raised
    \* ---- TUITokenStreamer
    write_callback,             \* self._write_callback: "none" or "sink"
    loop,                       \* self._loop: "none", "running" or "idle"
    reasoning_header_emitted,   \* self._reasoning_header_emitted
    queue,                      \* callbacks submitted to the running loop, FIFO
    scheduled,                  \* every _schedule_write call, in call order
    sinkLog,                    \* every invocation of the write sink, in time order
    nCalls,                     \* on_token calls made so far
    epochReasoning,             \* reasoning writes scheduled since the last reset()
    nHost,                      \* unrelated callbacks the host queued so far
    lastToken,                  \* how the last on_token call ended
    \* ---- settings choices
    VERIFIED_MODELS,
    UNVERIFIED_MODELS_EXCLUDING_BEDROCK,
    VALID_LITELLM_PROVIDERS,
    OPENAI_CODEX_MODELS,
    optionsCall,                \* the last option-builder call and its argument
    options                     \* the list it returned

extractVars == <<chunk, streaming>>
streamerVars == <<write_callback, loop, reasoning_header_emitted, queue, scheduled,
                  sinkLog, nCalls, epochReasoning, nHost, lastToken>>
choicesVars == <<VERIFIED_MODELS, UNVERIFIED_MODELS_EXCLUDING_BEDROCK,
                 VALID_LITELLM_PROVIDERS, OPENAI_CODEX_MODELS, optionsCall, options>>
vars == <<extractVars, streamerVars, choicesVars>>

(***************************************************************************)
(* Bounds of the model.                                                    *)
(***************************************************************************)
MaxChoices == 2     \* choices in one chunk
MaxCalls == 3       \* on_token calls in one run
MaxHost == 1        \* unrelated callbacks the host puts on the loop
MaxCatalog == 2     \* entries of the subscription model catalog

(***************************************************************************)
(* Python values.  An attribute is missing, None, an int, a str (a         *)
(* sequence of characters), a list or an object with attributes.           *)
(***************************************************************************)
Missing == [tag |-> "missing"]
None == [tag |-> "none"]
IntVal(n) == [tag |-> "int", n |-> n]
StrVal(s) == [tag |-> "str", s |-> s]
ListVal(items) == [tag |-> "list", items |-> items]
Delta(r, c) == [tag |-> "obj", reasoning_content |-> r, content |-> c]
Choice(i, d) == [index |-> i, delta |-> d]
Chunk(cs) == [choices |-> cs]

Whitespace == {" ", "\t", "\n"}

\* getattr(obj, name, default) once the attribute slot has been looked up
getattr(slot, default) == IF slot.tag = "missing" THEN default ELSE slot

\* bool(v)
Truthy(v) ==
    CASE v.tag = "none" -> FALSE
      [] v.tag = "missing" -> FALSE
      [] v.tag = "int" -> v.n # 0
      [] v.tag = "str" -> v.s # <<>>
      [] v.tag = "list" -> v.items # <<>>
      [] OTHER -> TRUE

\* str.lstrip() / str.rstrip() / str.strip()
RECURSIVE lstrip(_)
lstrip(s) == IF s # <<>> /\ Head(s) \in Whitespace THEN lstrip(Tail(s)) ELSE s

RECURSIVE rstrip(_)
rstrip(s) ==
    IF s # <<>> /\ s[Len(s)] \in Whitespace THEN rstrip(SubSeq(s, 1, Len(s) - 1)) ELSE s

strip(s) == rstrip(lstrip(s))

(***************************************************************************)
(* token_streaming.py: extract_streaming_content                           *)
(***************************************************************************)
REASONING_HEADER ==
    <<"*", "*", "R", "e", "a", "s", "o", "n", "i", "n", "g", "*", "*", ":", "\n">>

\* StreamingContent(reasoning=..., content=...), both None by default
StreamingContent(r, c) == [tag |-> "returned", reasoning |-> r, content |-> c]
Raised(exc) == [tag |-> "raised", exc |-> exc]

\* delta = getattr(choice, "delta", None)
choice_delta(choice) == getattr(choice.delta, None)

\* faulty variant: the index is never looked at
choice_index_always_zero(choice) == IntVal(0)

\* choice_index = getattr(choice, "index", 0) or 0
choice_index(choice) ==
    LET i == getattr(choice.index, IntVal(0))
    IN  IF Truthy(i) THEN i ELSE IntVal(0)

\* choice_index != 0
index_not_zero(i) == ~(i.tag = "int" /\ i.n = 0)

\* getattr(delta, name, None): only an object carries the attribute
delta_attr(delta, name) ==
    IF delta.tag = "obj" THEN getattr(delta[name], None) ELSE None

\* faulty variant: the test is `reasoning` instead of `reasoning.strip()`
reasoning_text_no_strip(reasoning) ==
    IF reasoning.tag = "str" /\ reasoning.s # <<>> THEN reasoning ELSE None

\* reasoning_text: the value itself if it is a str with a non-empty strip()
reasoning_text(reasoning) ==
    IF reasoning.tag = "str" /\ strip(reasoning.s) # <<>> THEN reasoning ELSE None

\* content_text: the value itself if it is a non-empty str
content_text(content) ==
    IF content.tag = "str" /\ content.s # <<>> THEN content ELSE None

\* the body of the for loop, from choice k on
RECURSIVE scan_choices(_, _)
scan_choices(items, k) ==
    IF k > Len(items) THEN StreamingContent(None, None)
    ELSE LET choice == items[k]
             delta == choice_delta(choice)
         IN  IF ~Truthy(delta) THEN scan_choices(items, k + 1)
             ELSE IF index_not_zero(choice_index(choice)) THEN scan_choices(items, k + 1)
             ELSE StreamingContent(
                      reasoning_text(delta_attr(delta, "reasoning_content")),
                      content_text(delta_attr(delta, "content")))

\* `for choice in chunk.choices`: a missing attribute or a non-iterable raises;
\* the characters of a str have no delta
extract_streaming_content(ch) ==
    CASE ch.choices.tag = "missing" -> Raised("AttributeError")
      [] ch.choices.tag = "none" -> Raised("TypeError")
      [] ch.choices.tag = "int" -> Raised("TypeError")
      [] ch.choices.tag = "str" -> StreamingContent(None, None)
      [] OTHER -> scan_choices(ch.choices.items, 1)

(***************************************************************************)
(* Chunks the extraction is applied to.                                    *)
(***************************************************************************)
IndexVals == {Missing, None, IntVal(0), IntVal(1), StrVal(<<"0">>)}

ReasoningVals ==
    {Missing, None, IntVal(7), StrVal(<<>>), StrVal(<<" ">>), StrVal(<<"\n", " ">>),
     StrVal(<<"a">>), StrVal(<<" ", "a">>), StrVal(<<"a", "\n">>)}

ContentVals ==
    {Missing, None, IntVal(7), StrVal(<<>>), StrVal(<<" ">>), StrVal(<<"b">>),
     StrVal(<<"b", " ">>)}

\* one choice, every combination of index, reasoning and content field
FieldChunks ==
    {Chunk(ListVal(<<Choice(i, Delta(r, c))>>)) :
        i \in IndexVals, r \in ReasoningVals, c \in ContentVals}

\* several choices, every combination of index and kind of delta
ChoiceDeltas ==
    {Missing, None, IntVal(0), IntVal(5),
     Delta(StrVal(<<"a">>), StrVal(<<"b">>)),
     Delta(StrVal(<<"x">>), Missing),
     Delta(StrVal(<<" ">>), StrVal(<<>>))}

ChoiceSet == {Choice(i, d) : i \in IndexVals, d \in ChoiceDeltas}

ChoiceChunks ==
    {Chunk(ListVal(cs)) : cs \in UNION {[1..n -> ChoiceSet] : n \in 0..MaxChoices}}

\* the choices collection itself missing, None or of the wrong type
MalformedChunks ==
    {Chunk(Missing), Chunk(None), Chunk(IntVal(3)), Chunk(StrVal(<<"a">>))}

Chunks == FieldChunks \cup ChoiceChunks \cup MalformedChunks

Pending == [tag |-> "pending"]

InitExtract ==
    /\ chunk \in Chunks
    /\ streaming = Pending

ExtractCall ==
    /\ streaming = Pending
    /\ streaming' = extract_streaming_content(chunk)
    /\ UNCHANGED chunk

(***************************************************************************)
(* token_streamer.py: TUITokenStreamer, and token_streaming.py:            *)
(* schedule_threadsafe.  The operators below thread the streamer's and the  *)
(* loop's state through one on_token call as a record                      *)
(*   [hdr, queue, scheduled, sinkLog, exc]                                 *)
(* where exc says that an exception is propagating.                        *)
(***************************************************************************)
Machine(hdr, q, sch, log, exc) ==
    [hdr |-> hdr, queue |-> q, scheduled |-> sch, sinkLog |-> log, exc |-> exc]

WriteItem(id) == [kind |-> "write", id |-> id]
HostItem == [kind |-> "host", id |-> 0]

\* do_write(): self._write_callback(text); the sink returns or raises
do_write(m, id, via, raises) ==
    [m EXCEPT !.sinkLog = Append(@, [id |-> id, via |-> via]), !.exc = raises]

\* asyncio.run_coroutine_threadsafe(_async_wrapper(), loop): hand-off to the loop
run_coroutine_threadsafe(m, id) == [m EXCEPT !.queue = Append(@, WriteItem(id))]

\* loop.run_until_complete(_async_wrapper()): the loop runs what was queued on
\* it, then the wrapper, and the wrapper's exception is raised to the caller
run_until_complete(m, id, raises) ==
    do_write([m EXCEPT !.queue = <<>>], id, "run_until_complete", raises)

\* faulty variant: the is_running() test is inverted
schedule_threadsafe_running_inverted(m, id, raises) ==
    IF loop = "none" THEN do_write(m, id, "direct", raises)
    ELSE IF loop = "idle" THEN run_coroutine_threadsafe(m, id)
    ELSE run_until_complete(m, id, raises)

\* schedule_threadsafe(callback, loop)
schedule_threadsafe(m, id, raises) ==
    IF loop = "none" THEN do_write(m, id, "direct", raises)
    ELSE IF loop = "running" THEN run_coroutine_threadsafe(m, id)
    ELSE run_until_complete(m, id, raises)

\* TUITokenStreamer._schedule_write(text); the call itself is recorded
schedule_write(m, kind, text, raises) ==
    LET id == Len(m.scheduled) + 1
        m1 == [m EXCEPT !.scheduled =
                  Append(@, [call |-> nCalls + 1, kind |-> kind, text |-> text])]
    IN  IF write_callback = "none" THEN m1
        ELSE schedule_threadsafe(m1, id, raises)

\* faulty variant: the flag is set after the write instead of before it
handle_reasoning_flag_after_write(m, reasoning, raises) ==
    IF ~Truthy(reasoning) THEN m
    ELSE LET text == IF ~m.hdr THEN REASONING_HEADER \o reasoning.s ELSE reasoning.s
             w == schedule_write(m, "reasoning", text, raises)
         IN  IF w.exc THEN w ELSE [w EXCEPT !.hdr = TRUE]

\* faulty variant: the header is prefixed whatever the flag says
handle_reasoning_header_always(m, reasoning, raises) ==
    IF ~Truthy(reasoning) THEN m
    ELSE schedule_write([m EXCEPT !.hdr = TRUE], "reasoning",
                        REASONING_HEADER \o reasoning.s, raises)

\* on_token: `if streaming.reasoning:` ... self._schedule_write(text)
handle_reasoning(m, reasoning, raises) ==
    IF ~Truthy(reasoning) THEN m
    ELSE LET text == IF ~m.hdr THEN REASONING_HEADER \o reasoning.s ELSE reasoning.s
         IN  schedule_write([m EXCEPT !.hdr = TRUE], "reasoning", text, raises)

\* on_token: `if streaming.content:` self._schedule_write(streaming.content)
handle_content(m, content, raises) ==
    IF ~Truthy(content) THEN m
    ELSE schedule_write(m, "content", content.s, raises)

\* the try block of on_token: an exception ends it where it is raised
on_token_body(m, ch, r1, r2) ==
    LET s == extract_streaming_content(ch)
    IN  IF s.tag = "raised" THEN [m EXCEPT !.exc = TRUE]
        ELSE LET a == handle_reasoning(m, s.reasoning, r1)
             IN  IF a.exc THEN a ELSE handle_content(a, s.content, r2)

\* faulty variant: no except clause
propagates_uncaught(exc) == exc

\* `except Exception as e: logger.warning(...)`: whether on_token re-raises
propagates(exc) == FALSE

(***************************************************************************)
(* Chunks streamed to on_token.                                            *)
(***************************************************************************)
StreamChunks ==
    {Chunk(None),
     Chunk(ListVal(<<>>)),
     Chunk(ListVal(<<Choice(IntVal(0), Delta(StrVal(<<"a">>), None))>>)),
     Chunk(ListVal(<<Choice(Missing, Delta(None, StrVal(<<"b">>)))>>)),
     Chunk(ListVal(<<Choice(IntVal(0), Delta(StrVal(<<" ", "a">>), StrVal(<<"b">>)))>>)),
     Chunk(ListVal(<<Choice(IntVal(0), Delta(StrVal(<<" ">>), StrVal(<<>>)))>>)),
     Chunk(ListVal(<<Choice(IntVal(1), Delta(StrVal(<<"x">>), StrVal(<<"b">>))),
                     Choice(IntVal(0), Delta(StrVal(<<"a">>), Missing))>>))}

\* whether extraction finds a reasoning / a content fragment in the chunk
Carries(ch, field) ==
    LET s == extract_streaming_content(ch)
    IN  s.tag = "returned" /\ Truthy(s[field])

NoToken == [propagated |-> FALSE, logged |-> FALSE, reasoning |-> FALSE, content |-> FALSE]

\* TUITokenStreamer.__init__, for every configuration of sink and loop
InitStreamer ==
    /\ write_callback \in {"none", "sink"}
    /\ loop \in {"none", "running", "idle"}
    /\ reasoning_header_emitted = FALSE
    /\ queue = <<>>
    /\ scheduled = <<>>
    /\ sinkLog = <<>>
    /\ nCalls = 0
    /\ epochReasoning = 0
    /\ nHost = 0
    /\ lastToken = NoToken

\* the reasoning writes among the entries of `scheduled` after the first n
ReasoningSince(sch, n) ==
    Cardinality({i \in (n + 1)..Len(sch) : sch[i].kind = "reasoning"})

\* TUITokenStreamer.reset
reset ==
    /\ reasoning_header_emitted' = FALSE
    /\ epochReasoning' = 0
    /\ UNCHANGED <<write_callback, loop, queue, scheduled, sinkLog, nCalls, nHost,
                   lastToken>>

\* TUITokenStreamer.on_token
on_token ==
    /\ nCalls < MaxCalls
    /\ \E ch \in StreamChunks, r1 \in BOOLEAN, r2 \in BOOLEAN :
          LET m == on_token_body(
                       Machine(reasoning_header_emitted, queue, scheduled, sinkLog, FALSE),
                       ch, r1, r2)
          IN  /\ reasoning_header_emitted' = m.hdr
              /\ queue' = m.queue
              /\ scheduled' = m.scheduled
              /\ sinkLog' = m.sinkLog
              /\ lastToken' = [propagated |-> propagates(m.exc), logged |-> m.exc,
                               reasoning |-> Carries(ch, "reasoning"),
                               content |-> Carries(ch, "content")]
    /\ epochReasoning' = epochReasoning + ReasoningSince(scheduled', Len(scheduled))
    /\ nCalls' = nCalls + 1
    /\ UNCHANGED <<write_callback, loop, nHost>>

\* faulty variant: the loop runs the newest callback first
loop_next_newest(q) == Len(q)

\* the position of the callback a running loop runs next: the oldest
loop_next(q) == 1

\* the running loop runs one queued callback; a write's wrapper invokes the
\* sink, and what the sink raises there stays in the wrapper's future, which
\* nothing reads
loop_step ==
    /\ loop = "running"
    /\ queue # <<>>
    /\ LET k == loop_next(queue)
           item == queue[k]
       IN  /\ queue' = SubSeq(queue, 1, k - 1) \o SubSeq(queue, k + 1, Len(queue))
           /\ IF item.kind = "write"
              THEN sinkLog' = Append(sinkLog, [id |-> item.id, via |-> "loop"])
              ELSE sinkLog' = sinkLog
    /\ UNCHANGED <<write_callback, loop, reasoning_header_emitted, scheduled,
                   nCalls, epochReasoning, nHost, lastToken>>

\* the host queues unrelated work on the loop (call_soon)
host_call_soon ==
    /\ loop # "none"
    /\ nHost < MaxHost
    /\ queue' = Append(queue, HostItem)
    /\ nHost' = nHost + 1
    /\ UNCHANGED <<write_callback, loop, reasoning_header_emitted, scheduled,
                   sinkLog, nCalls, epochReasoning, lastToken>>

(***************************************************************************)
(* choices.py: provider and model options.  A name is a Python str, kept   *)
(* as the sequence of its code points, which is what sorted() compares.    *)
(***************************************************************************)
\* "chatgpt-subscription"
CHATGPT_PROVIDER_ID ==
    <<99, 104, 97, 116, 103, 112, 116, 45, 115, 117, 98, 115, 99, 114, 105, 112, 116,
      105, 111, 110>>

\* "ChatGPT Subscription"
CHATGPT_PROVIDER_LABEL ==
    <<67, 104, 97, 116, 71, 80, 84, 32, 83, 117, 98, 115, 99, 114, 105, 112, 116, 105,
      111, 110>>

\* str.__lt__: lexicographic on code points, a proper prefix first
RECURSIVE StrLess(_, _)
StrLess(a, b) ==
    IF b = <<>> THEN FALSE
    ELSE IF a = <<>> THEN TRUE
    ELSE IF Head(a) < Head(b) THEN TRUE
    ELSE IF Head(b) < Head(a) THEN FALSE
    ELSE StrLess(Tail(a), Tail(b))

\* one step of sorted(): x goes before the first element greater than it
RECURSIVE insert_sorted(_, _)
insert_sorted(x, s) ==
    IF s = <<>> THEN <<x>>
    ELSE IF StrLess(x, Head(s)) THEN <<x>> \o s
    ELSE <<Head(s)>> \o insert_sorted(x, Tail(s))

\* sorted(iterable) of a list: ascending and stable
sorted(xs) ==
    LET RECURSIVE sort_from(_, _)
        sort_from(k, acc) ==
            IF k > Len(xs) THEN acc ELSE sort_from(k + 1, insert_sorted(xs[k], acc))
    IN  sort_from(1, <<>>)

\* the iteration order of a set: some order of its elements
RECURSIVE iterate(_)
iterate(S) ==
    IF S = {} THEN <<>>
    ELSE LET x == CHOOSE y \in S : TRUE IN <<x>> \o iterate(S \ {x})

\* set(list)
set(xs) == {xs[i] : i \in 1..Len(xs)}

\* [(name, name) for name in names]
pairs(names) == [i \in 1..Len(names) |-> <<names[i], names[i]>>]

\* dict.get(key, [])
dict_get(table, key) == IF key \in DOMAIN table THEN table[key] ELSE <<>>

\* faulty variant: the unverified providers are not filtered
get_provider_options_unfiltered ==
    LET verified_providers == DOMAIN VERIFIED_MODELS
        unverified_providers == DOMAIN UNVERIFIED_MODELS_EXCLUDING_BEDROCK
        all_valid_providers == sorted(iterate(verified_providers \cup unverified_providers))
    IN  <<<<CHATGPT_PROVIDER_LABEL, CHATGPT_PROVIDER_ID>>>> \o pairs(all_valid_providers)

\* get_provider_options()
get_provider_options ==
    LET verified_providers == DOMAIN VERIFIED_MODELS
        unverified_providers == DOMAIN UNVERIFIED_MODELS_EXCLUDING_BEDROCK
        valid_unverified == unverified_providers \cap VALID_LITELLM_PROVIDERS
        all_valid_providers == sorted(iterate(verified_providers \cup valid_unverified))
    IN  <<<<CHATGPT_PROVIDER_LABEL, CHATGPT_PROVIDER_ID>>>> \o pairs(all_valid_providers)

\* get_chatgpt_model_options()
get_chatgpt_model_options == pairs(sorted(OPENAI_CODEX_MODELS))

\* faulty variant: no special handling of the subscription provider
get_model_options_no_special_case(provider) ==
    pairs(sorted(iterate(set(dict_get(VERIFIED_MODELS, provider)
                             \o dict_get(UNVERIFIED_MODELS_EXCLUDING_BEDROCK, provider)))))

\* get_model_options(provider)
get_model_options(provider) ==
    IF provider = CHATGPT_PROVIDER_ID THEN get_chatgpt_model_options
    ELSE LET models == dict_get(VERIFIED_MODELS, provider)
                       \o dict_get(UNVERIFIED_MODELS_EXCLUDING_BEDROCK, provider)
             unique_models == sorted(iterate(set(models)))
         IN  pairs(unique_models)

\* provider names: "Q", "a", "ab"; model names: "B", "a", "b"
Providers == {<<81>>, <<97>>, <<97, 98>>}
Models == {<<66>>, <<97>>, <<98>>}
ModelLists == {<<<<98>>, <<97>>>>, <<<<97>>, <<97>>>>}

\* a provider table: some providers, each with a list of models
Tables == UNION {[K -> {l}] : K \in SUBSET Providers, l \in ModelLists}

\* the subscription catalog, in the order it iterates
Catalogs == UNION {[1..n -> Models] : n \in 0..MaxCatalog}

NoCall == [fn |-> "none", provider |-> <<>>]

InitChoices ==
    /\ VERIFIED_MODELS \in Tables
    /\ UNVERIFIED_MODELS_EXCLUDING_BEDROCK \in Tables
    /\ VALID_LITELLM_PROVIDERS \in SUBSET Providers
    /\ OPENAI_CODEX_MODELS \in Catalogs
    /\ optionsCall = NoCall
    /\ options = <<>>

tables == <<VERIFIED_MODELS, UNVERIFIED_MODELS_EXCLUDING_BEDROCK,
            VALID_LITELLM_PROVIDERS, OPENAI_CODEX_MODELS>>

call_get_provider_options ==
    /\ options' = get_provider_options
    /\ optionsCall' = [fn |-> "get_provider_options", provider |-> <<>>]
    /\ UNCHANGED tables

call_get_model_options ==
    /\ \E provider \in Providers \cup {CHATGPT_PROVIDER_ID} :
          /\ options' = get_model_options(provider)
          /\ optionsCall' = [fn |-> "get_model_options", provider |-> provider]
    /\ UNCHANGED tables

(***************************************************************************)
(* Specifications.  Each one runs one component and holds the others at    *)
(* rest.                                                                   *)
(***************************************************************************)
RestExtract == chunk = Chunk(ListVal(<<>>)) /\ streaming = Pending

RestStreamer ==
    /\ write_callback = "none"
    /\ loop = "none"
    /\ reasoning_header_emitted = FALSE
    /\ queue = <<>>
    /\ scheduled = <<>>
    /\ sinkLog = <<>>
    /\ nCalls = 0
    /\ epochReasoning = 0
    /\ nHost = 0
    /\ lastToken = NoToken

RestChoices ==
    /\ VERIFIED_MODELS = <<>>
    /\ UNVERIFIED_MODELS_EXCLUDING_BEDROCK = <<>>
    /\ VALID_LITELLM_PROVIDERS = {}
    /\ OPENAI_CODEX_MODELS = <<>>
    /\ optionsCall = NoCall
    /\ options = <<>>

\* the token streamer
Init == InitStreamer /\ RestExtract /\ RestChoices

Next ==
    \/ reset /\ UNCHANGED <<extractVars, choicesVars>>
    \/ on_token /\ UNCHANGED <<extractVars, choicesVars>>
    \/ loop_step /\ UNCHANGED <<extractVars, choicesVars>>
    \/ host_call_soon /\ UNCHANGED <<extractVars, choicesVars>>

Spec == Init /\ [][Next]_vars

\* extract_streaming_content on its own
InitX == InitExtract /\ RestStreamer /\ RestChoices

NextX == ExtractCall /\ UNCHANGED <<streamerVars, choicesVars>>

SpecExtract == InitX /\ [][NextX]_vars

\* the option builder on its own
InitC == InitChoices /\ RestExtract /\ RestStreamer

NextC ==
    \/ call_get_provider_options /\ UNCHANGED <<extractVars, streamerVars>>
    \/ call_get_model_options /\ UNCHANGED <<extractVars, streamerVars>>

SpecChoices == InitC /\ [][NextC]_vars

(***************************************************************************)
(* Properties of the token streamer (specification Spec).                  *)
(***************************************************************************)
HasHeader(text) ==
    /\ Len(text) >= Len(REASONING_HEADER)
    /\ SubSeq(text, 1, Len(REASONING_HEADER)) = REASONING_HEADER

ReasoningWrites == {i \in 1..Len(scheduled) : scheduled[i].kind = "reasoning"}

\* the reasoning writes scheduled since the last reset() (or construction)
CurrentEpoch ==
    {i \in ReasoningWrites :
        Cardinality({j \in ReasoningWrites : j >= i}) <= epochReasoning}

\* the entries of `scheduled` a step adds, and the sink invocations it adds
NewWrites == (Len(scheduled) + 1)..Len(scheduled')
NewInvocations == SubSeq(sinkLog', Len(sinkLog) + 1, Len(sinkLog'))
IsOnToken == nCalls' = nCalls + 1
IsReset ==
    /\ nCalls' = nCalls /\ nHost' = nHost
    /\ queue' = queue /\ sinkLog' = sinkLog /\ scheduled' = scheduled

\* C1: among the reasoning writes scheduled since the last reset() (or since
\* construction) exactly the first carries REASONING_HEADER and no later one
\* does; so after reset() the next reasoning write carries it again.
C1_HeaderOncePerResponse ==
    /\ epochReasoning = Cardinality(CurrentEpoch)
    /\ \A i \in CurrentEpoch :
          HasHeader(scheduled[i].text) <=> (\A j \in CurrentEpoch : i <= j)

\* three reasoning writes, a reset() before the third: header, none, header
C1_Witness ==
    /\ Cardinality(ReasoningWrites) = 3
    /\ epochReasoning = 1
    /\ \E i, j, k \in ReasoningWrites :
          /\ i < j /\ j < k
          /\ HasHeader(scheduled[i].text)
          /\ ~HasHeader(scheduled[j].text)
          /\ HasHeader(scheduled[k].text)

\* C2: the sink is invoked in the order the writes were scheduled, the writes
\* are scheduled in the order of the on_token calls, and within one call the
\* reasoning fragment is scheduled before the content fragment.
C2_DeliveryOrder ==
    /\ \A i, j \in 1..Len(sinkLog) : i < j => sinkLog[i].id < sinkLog[j].id
    /\ \A i, j \in 1..Len(scheduled) :
          i < j =>
             \/ scheduled[i].call < scheduled[j].call
             \/ /\ scheduled[i].call = scheduled[j].call
                /\ scheduled[i].kind = "reasoning"
                /\ scheduled[j].kind = "content"

\* a running loop has run host work and the writes of two on_token calls, one
\* of them carrying both fragments
C2_Witness ==
    /\ loop = "running"
    /\ nHost = 1
    /\ queue = <<>>
    /\ Len(sinkLog) >= 3
    /\ \E i, j \in 1..Len(sinkLog) :
          /\ scheduled[sinkLog[i].id].call = scheduled[sinkLog[j].id].call
          /\ scheduled[sinkLog[i].id].kind = "reasoning"
          /\ scheduled[sinkLog[j].id].kind = "content"
    /\ \E i, j \in 1..Len(sinkLog) :
          scheduled[sinkLog[i].id].call # scheduled[sinkLog[j].id].call

C10_FlagSetBeforeWrite ==
    [][/\ (IsOnToken /\ lastToken'.reasoning) => reasoning_header_emitted'
       /\ (reasoning_header_emitted /\ ~reasoning_header_emitted') => IsReset
       /\ (IsOnToken /\ reasoning_header_emitted) =>
             \A i \in NewWrites :
                scheduled'[i].kind = "reasoning" => ~HasHeader(scheduled'[i].text)
       /\ (/\ IsOnToken
           /\ lastToken'.logged
           /\ lastToken'.reasoning
           /\ lastToken'.content
           /\ NewInvocations # <<>>
           /\ scheduled'[sinkLog'[Len(sinkLog')].id].kind = "reasoning") =>
             \A i \in NewWrites : scheduled'[i].kind # "content"]_vars

\* the sink raised on the header-bearing write of a chunk that also carried
\* content: the flag is set, the content was not scheduled
C10_Witness ==
    /\ write_callback = "sink"
    /\ loop = "none"
    /\ nCalls = 1
    /\ lastToken.logged /\ lastToken.reasoning /\ lastToken.content
    /\ reasoning_header_emitted
    /\ Len(scheduled) = 1
    /\ HasHeader(scheduled[1].text)

(***************************************************************************)
(* Properties of extract_streaming_content (specification SpecExtract).    *)
(* They are stated on the chunk's fields, not through the operators the    *)
(* extraction is built from.                                               *)
(***************************************************************************)
Returned == streaming.tag = "returned"
Items == IF chunk.choices.tag = "list" THEN chunk.choices.items ELSE <<>>

\* an index of 0; a missing or null index counts as 0
IsIndexZero(c) ==
    \/ c.index.tag \in {"missing", "none"}
    \/ c.index.tag = "int" /\ c.index.n = 0

\* the choice has a delta: the attribute is there and is not an empty value
HasDelta(c) ==
    /\ c.delta.tag \notin {"missing", "none"}
    /\ c.delta.tag = "int" => c.delta.n # 0

ZeroChoices == {k \in 1..Len(Items) : IsIndexZero(Items[k]) /\ HasDelta(Items[k])}

\* the reasoning / content field of a choice's delta, None when it has none
FieldOf(c, name) ==
    IF c.delta.tag = "obj" /\ c.delta[name].tag # "missing" THEN c.delta[name] ELSE None

Absent(v) == v = None
IsText(v) == v.tag = "str"

\* C4: extract_streaming_content never fails: for every chunk, also one whose
\* choices collection is missing, null or of the wrong type, it raises nothing
\* and returns a StreamingContent whose fields are absent or text.
C4_ExtractNeverFails ==
    streaming # Pending =>
        /\ Returned
        /\ Absent(streaming.reasoning) \/ IsText(streaming.reasoning)
        /\ Absent(streaming.content) \/ IsText(streaming.content)

\* C5: the result reflects only the delta of a choice whose index is 0,
\* wherever it stands in the list: each text in the result is a field of one
\* such choice, and with no index-0 choice that has a delta both fields are
\* absent.
C5_OnlyIndexZero ==
    Returned =>
        IF ZeroChoices = {}
        THEN Absent(streaming.reasoning) /\ Absent(streaming.content)
        ELSE \E k \in ZeroChoices :
                /\ streaming.reasoning \in {None, FieldOf(Items[k], "reasoning_content")}
                /\ streaming.content \in {None, FieldOf(Items[k], "content")}

\* the index-1 choice comes first and carries text; the result is the text of
\* the index-0 choice behind it
C5_Witness ==
    /\ Returned
    /\ Len(Items) = 2
    /\ Items[1].index = IntVal(1)
    /\ Items[1].delta = Delta(StrVal(<<"a">>), StrVal(<<"b">>))
    /\ Items[2].index = IntVal(0)
    /\ streaming = StreamingContent(StrVal(<<"x">>), None)

\* C6: for the selected index-0 delta, the reasoning is returned iff the field
\* is a string with a non-whitespace character, the content iff the field is a
\* non-empty string, and what is returned is the field's value unchanged.
C6_FieldRules ==
    (Returned /\ ZeroChoices # {}) =>
        LET k == CHOOSE z \in ZeroChoices : \A y \in ZeroChoices : z <= y
            r == FieldOf(Items[k], "reasoning_content")
            c == FieldOf(Items[k], "content")
        IN  /\ ~Absent(streaming.reasoning) <=>
                  (IsText(r) /\ \E i \in 1..Len(r.s) : r.s[i] \notin Whitespace)
            /\ ~Absent(streaming.reasoning) => streaming.reasoning = r
            /\ ~Absent(streaming.content) <=> (IsText(c) /\ Len(c.s) > 0)
            /\ ~Absent(streaming.content) => streaming.content = c

\* a reasoning with leading whitespace is returned untrimmed, beside an absent
\* content that was the empty string
C6_Witness ==
    /\ Returned
    /\ Len(Items) = 1
    /\ Items[1].delta = Delta(StrVal(<<" ", "a">>), StrVal(<<>>))
    /\ streaming = StreamingContent(StrVal(<<" ", "a">>), None)

(***************************************************************************)
(* Properties of the option builder (specification SpecChoices).           *)
(***************************************************************************)
Ascending(names) == \A i, j \in 1..Len(names) : i < j => ~StrLess(names[j], names[i])
StrictlyAscending(names) == \A i, j \in 1..Len(names) : i < j => StrLess(names[i], names[j])
Count(x, xs) == Cardinality({i \in 1..Len(xs) : xs[i] = x})
Values(opts) == [i \in 1..Len(opts) |-> opts[i][2]]
NamePairs(opts) == \A i \in 1..Len(opts) : opts[i][1] = opts[i][2]

CalledProviderOptions == optionsCall.fn = "get_provider_options"
CalledSubscriptionModels ==
    optionsCall.fn = "get_model_options" /\ optionsCall.provider = CHATGPT_PROVIDER_ID

\* C7: get_provider_options returns the subscription entry first and then
\* exactly the names in verified \cup (unverified \cap recognized), each as
\* (name, name), strictly ascending; an unverified name that is neither
\* recognized nor verified is not in the list.
C7_ProviderOptions ==
    CalledProviderOptions =>
        LET rest == Tail(options)
            verified == DOMAIN VERIFIED_MODELS
            unverified == DOMAIN UNVERIFIED_MODELS_EXCLUDING_BEDROCK
        IN  /\ Len(options) >= 1
            /\ options[1] = <<CHATGPT_PROVIDER_LABEL, CHATGPT_PROVIDER_ID>>
            /\ NamePairs(rest)
            /\ set(Values(rest)) = verified \cup (unverified \cap VALID_LITELLM_PROVIDERS)
            /\ StrictlyAscending(Values(rest))
            /\ \A p \in unverified \ (VALID_LITELLM_PROVIDERS \cup verified) :
                  Count(p, Values(rest)) = 0

\* an unverified name is filtered out, a verified unrecognized one is kept, and
\* "Q" sorts before "a" before "ab"
C7_Witness ==
    /\ CalledProviderOptions
    /\ DOMAIN VERIFIED_MODELS = {<<97, 98>>}
    /\ DOMAIN UNVERIFIED_MODELS_EXCLUDING_BEDROCK = {<<81>>, <<97>>, <<97, 98>>}
    /\ VALID_LITELLM_PROVIDERS = {<<81>>, <<97, 98>>}
    /\ Values(options) = <<CHATGPT_PROVIDER_ID, <<81>>, <<97, 98>>>>

\* C8 as claimed: get_model_options("chatgpt-subscription") is the sorted,
\* deduplicated catalog, also for a catalog that lists a model twice.
C8_SortedDeduplicated ==
    CalledSubscriptionModels =>
        /\ NamePairs(options)
        /\ StrictlyAscending(Values(options))
        /\ set(Values(options)) = set(OPENAI_CODEX_MODELS)

\* C8 as amended: get_model_options("chatgpt-subscription") is the catalog
\* sorted ascending, each entry as (name, name), one entry for every entry of
\* the catalog, whatever the provider tables hold.
C8_SortedCatalog ==
    CalledSubscriptionModels =>
        /\ NamePairs(options)
        /\ Ascending(Values(options))
        /\ Len(options) = Len(OPENAI_CODEX_MODELS)
        /\ \A m \in Models : Count(m, Values(options)) = Count(m, OPENAI_CODEX_MODELS)

\* an unsorted catalog was sorted, while the tables hold models of their own
C8_Witness ==
    /\ CalledSubscriptionModels
    /\ OPENAI_CODEX_MODELS = <<<<98>>, <<66>>>>
    /\ Values(options) = <<<<66>>, <<98>>>>
    /\ DOMAIN VERIFIED_MODELS # {}
    /\ DOMAIN UNVERIFIED_MODELS_EXCLUDING_BEDROCK # {}

====
